---- MODULE Spec2Model ----
(***************************************************************************)
(* A model of honey, an HTTP reverse-proxy cache with request coalescing.  *)
(*                                                                         *)
(* Modelled: the mediator (fetch.Fetch, RespondFromCache,                  *)
(* RespondFromSingleflight, FlushSingleflight), the coalescer              *)
(* (singleflight.AddWriter / Write / Wait), the in-memory store            *)
(* (defaultCacher.Hash / Cache / Load / Standardize) and the validator     *)
(* (responseImpl.Validate).                                                *)
(*                                                                         *)
(* Representation.  A hash string is a sequence of tokens: the token       *)
(* <<method, url>> for "METHOD :: URL", one token <<"::", v>> for each     *)
(* "::" + header value, one token <<name, value>> for each " :: name ::    *)
(* value" cookie part.  String concatenation is sequence concatenation.    *)
(* A Cache-Control header is a record of the directives the code looks     *)
(* for; Absent stands for a directive that is not there.  A body is the    *)
(* id of the request whose forwarding produced it, and the ETag of a body  *)
(* is that same id (BLAKE2b is taken to be collision free).                *)
(***************************************************************************)
EXTENDS Integers, Sequences, FiniteSets, TLC

\* ------------------------------------------------------------------ bounds
NReq == 3
MaxTime == 1
MaxDepth == 2
MaxLag == 1

Reqs == 1..NReq

\* ------------------------------------------------------- program constants
StatusOK == 200
StatusNotModified == 304
StatusPreconditionFailed == 412
ServerError == 500
StatusGatewayTimeout == 504
DefaultMaxAge == 300

Absent == 0 - 1
Star == 0 - 2

\* The cookies allowed through the cache (defaultCacher.allowedCookieNames).
allowedCookieNames == <<"session">>

\* ---------------------------------------------------------------- requests
\* The Cache-Control of a request with none of the directives the code reads.
NoCC ==
  [noCache |-> FALSE, onlyIfCached |-> FALSE, mustRevalidate |-> FALSE,
   proxyRevalidate |-> FALSE, maxAge |-> Absent, swr |-> Absent]

\* The host and scheme of the URL the client requests, and the backend.
ClientHost == "www.insomniac.com"
ClientScheme == "https"
backend == [host |-> "www.backend.com", scheme |-> "http"]

\* A plain GET of the URL "/", Accept-Language: en, no Accept-Encoding, no
\* Authorization (auth: the Authorization header is not empty).
PlainReq ==
  [method |-> "GET", url |-> "/", auth |-> FALSE, lang |-> "en", enc |-> "",
   host |-> "", urlHost |-> ClientHost, scheme |-> ClientScheme, xfp |-> "",
   cookies |-> <<>>, cc |-> NoCC, pragma |-> "", inm |-> 0, ims |-> Absent, ius |-> Absent,
   xhv |-> <<>>]

InSeq(x, s) == \E i \in DOMAIN s : s[i] = x

\* r.Header, as far as a Vary header can name it.
Headers(r) == ("Accept-Language" :> r.lang) @@ ("Accept-Encoding" :> r.enc)

HeaderGet(h, name) == IF name \in DOMAIN h THEN h[name] ELSE ""

\* r.URL.Path of the URLs of the model: the URL without its query.
UrlPath(url) ==
  CASE url = "/?preview=true" -> "/"
    [] url = "/?preview=false" -> "/"
    [] OTHER -> url

\* r.URL.Query().Get("preview").
QueryPreview(url) ==
  CASE url = "/?preview=true" -> "true"
    [] url = "/?preview=false" -> "false"
    [] OTHER -> ""

\* filepath.Ext: the suffix from the last dot of the last path element.
Ext(path) ==
  CASE path = "/images/test.jpg" -> ".jpg"
    [] path = "/images/test.JPG" -> ".JPG"
    [] path = "/v1.2/page" -> ""
    [] OTHER -> ""

fileExtensions ==
  {".7z", ".avi", ".bmp", ".bz2", ".css", ".csv", ".doc", ".docx", ".eot",
   ".flac", ".flv", ".gif", ".gz", ".ico", ".jpeg", ".jpg", ".js", ".less",
   ".mka", ".mkv", ".mov", ".mp3", ".mp4", ".mpeg", ".mpg", ".odt", ".otf",
   ".ogg", ".ogm", ".opus", ".pdf", ".png", ".ppt", ".pptx", ".rar", ".rtf",
   ".svg", ".svgz", ".swf", ".tar", ".tbz", ".tgz", ".ttf", ".txt", ".txz",
   ".wav", ".webm", ".webp", ".woff", ".woff2", ".xls", ".xlsx", ".xml",
   ".xz", ".zip"}

\* utilities.IsStaticFile
IsStaticFile(path) == Ext(path) \in fileExtensions

\* defaultCacher.skipUrls: NewDefaultCacher makes it empty and nothing adds
\* to it.
skipUrls == {}

\* The paths of the model in which "/(feed|wp-admin|wp-login)" finds a match
\* (the expression is not anchored).
skipRegex ==
  {"/feed", "/wp-admin", "/wp-login", "/blog/feedback"}

\* fetch.SwitchBackend: req.Host takes the URL's host, the URL takes the
\* backend's host and scheme, X-Forwarded-Proto takes the URL's scheme if the
\* header is empty.
SwitchBackend(rq) ==
  [rq EXCEPT !.host = rq.urlHost,
             !.urlHost = backend.host,
             !.xfp = IF rq.xfp = "" THEN rq.scheme ELSE rq.xfp,
             !.scheme = backend.scheme]

\* A CanCache that lets requests with an Authorization header through.
CanCacheIgnoringAuthorization(r) ==
  /\ r.method \in {"GET", "HEAD"}
  /\ ~IsStaticFile(UrlPath(r.url))
  /\ QueryPreview(r.url) # "true"
  /\ UrlPath(r.url) \notin skipUrls
  /\ UrlPath(r.url) \notin skipRegex

CanCache(r) ==
  /\ r.method \in {"GET", "HEAD"}
  /\ ~IsStaticFile(UrlPath(r.url))
  /\ ~r.auth
  /\ QueryPreview(r.url) # "true"
  /\ UrlPath(r.url) \notin skipUrls
  /\ UrlPath(r.url) \notin skipRegex

\* The "cookie" part of a Vary signature: every allowed cookie name, in the
\* configured order, with the cookie's value or nothing.
RECURSIVE CookieSig(_, _)
CookieSig(cookies, allowed) ==
  IF allowed = <<>> THEN <<>>
  ELSE LET name == Head(allowed)
           hit == {i \in DOMAIN cookies : cookies[i][1] = name}
           val == IF hit = {} THEN ""
                  ELSE cookies[CHOOSE i \in hit : \A j \in hit : i <= j][2]
       IN <<<<name, val>>>> \o CookieSig(cookies, Tail(allowed))

RECURSIVE GetVaryHeadersHash(_, _, _, _)
GetVaryHeadersHash(headers, cookies, allowed, vary) ==
  IF vary = <<>> THEN <<>>
  ELSE (IF Head(vary) # "cookie"
        THEN <<<<"::", HeaderGet(headers, Head(vary))>>>>
        ELSE CookieSig(cookies, allowed))
       \o GetVaryHeadersHash(headers, cookies, allowed, Tail(vary))

\* defaultCacher.Hash: method and URL, the Vary signature when a Vary header
\* is memoised under exactly method and URL, then X-Honey-Vary.
HashBase(r) == <<<<r.method, r.url>>>>

Hash(memo, r) ==
  LET b == HashBase(r)
  IN b \o (IF b \in DOMAIN memo
           THEN GetVaryHeadersHash(Headers(r), r.cookies, allowedCookieNames, memo[b])
           ELSE <<>>)
       \o r.xhv

\* The hash as the string the code builds.  The strings of the model, as
\* their characters:
Chars(s) ==
  CASE s = "" -> <<>>
    [] s = "GET" -> <<"G", "E", "T">>
    [] s = "HEAD" -> <<"H", "E", "A", "D">>
    [] s = "/" -> <<"/">>
    [] s = "/::en" -> <<"/", ":", ":", "e", "n">>
    [] s = "en" -> <<"e", "n">>
    [] s = "ru" -> <<"r", "u">>
    [] s = "gzip" -> <<"g", "z", "i", "p">>
    [] s = "a" -> <<"a">>
    [] s = "b" -> <<"b">>
    [] s = "session" -> <<"s", "e", "s", "s", "i", "o", "n">>
    [] s = "::" -> <<":", ":">>
    [] s = " :: " -> <<" ", ":", ":", " ">>
    [] OTHER -> <<s>>

\* strings.Replace(x, "::", "::::", -1)
RECURSIVE Escape(_)
Escape(x) ==
  IF x = <<>> THEN <<>>
  ELSE IF Len(x) >= 2 /\ x[1] = ":" /\ x[2] = ":"
  THEN <<":", ":", ":", ":">> \o Escape(SubSeq(x, 3, Len(x)))
  ELSE <<Head(x)>> \o Escape(Tail(x))

\* What the code writes to the buffer for one part of a hash: "%s :: %s" for
\* method and URL, "::" and the value for a Vary header, " :: %s :: %v" for
\* an allowed cookie.
PartText(part) ==
  IF part[1] \in {"GET", "HEAD", "POST"}
  THEN Chars(part[1]) \o Chars(" :: ") \o Chars(part[2])
  ELSE IF part[1] = "::"
  THEN Chars("::") \o Chars(part[2])
  ELSE Chars(" :: ") \o Escape(Chars(part[1])) \o Chars(" :: ")
       \o Escape(Chars(part[2]))

RECURSIVE Text(_)
Text(h) == IF h = <<>> THEN <<>> ELSE PartText(Head(h)) \o Text(Tail(h))

HashString(memo, r) == Text(Hash(memo, r))

\* --------------------------------------------------------------- responses
\* What the origin can answer (status, Cache-Control directives, Vary); the
\* body is filled in with the id of the forwarded request.
OriginBase ==
  [status |-> StatusOK, private |-> FALSE, noStore |-> FALSE, noCache |-> FALSE,
   ncsc |-> FALSE, public |-> FALSE, maxAge |-> Absent, sMaxAge |-> Absent,
   sie |-> Absent, vary |-> <<>>, expires |-> Absent, lastMod |-> Absent,
   cookies |-> <<>>]

\* "No response": the zero value of the Response interface.
NoResp ==
  [status |-> 0, private |-> FALSE, noStore |-> FALSE, noCache |-> FALSE,
   ncsc |-> FALSE, public |-> FALSE, maxAge |-> Absent, sMaxAge |-> Absent,
   sie |-> Absent, vary |-> <<>>, expires |-> Absent, lastMod |-> Absent,
   setCookie |-> <<>>, cookies |-> <<>>,
   body |-> 0, etag |-> 0, rh |-> ("Accept-Language" :> "") @@ ("Accept-Encoding" :> ""), born |-> 0,
   src |-> 0]

\* ccReplacer on the directives of a Cache-Control value: the replacer
\* replaces no-cache="set-cookie" and public by nothing.
ccReplacer(cc) == [cc EXCEPT !.ncsc = FALSE, !.public = FALSE]

\* strings.Contains(cc, "no-cache"): the plain directive, or the one
\* qualified with "set-cookie".
ContainsNoCache(cc) == cc.noCache \/ cc.ncsc

\* A Set-Cookie filter that lets every line through.
AllSetCookies(cookies) == cookies

\* The Set-Cookie lines Standardize leaves on the origin response: those of
\* an allowed cookie name.
AllowedSetCookies(cookies) ==
  SelectSeq(cookies, LAMBDA c : InSeq(c[1], allowedCookieNames))

\* defaultCacher.Standardize of origin response o (body b) to request rq at
\* time t: the stored Response.  The headers are copied after the Set-Cookie
\* filter; no-cache="set-cookie" takes Set-Cookie off the copy and rewrites
\* its Cache-Control (the local cc keeps the old text); without private,
\* cc + ",public" goes through ccReplacer, which takes public out again;
\* max-age=300 is appended, again through ccReplacer, unless cc holds
\* no-cache or max-age; the ETag is set unless no-store; Last-Modified and
\* Expires are defaulted on the origin response only, after the copy.
Standardize(o, b, rq, t) ==
  LET kept == AllowedSetCookies(o.cookies)
      h1 == IF o.ncsc THEN ccReplacer(o) ELSE o
      cc1 == IF ~o.private THEN ccReplacer([o EXCEPT !.public = TRUE]) ELSE o
      h2 == IF ~o.private THEN cc1 ELSE h1
      addMaxAge == ~ContainsNoCache(cc1) /\ cc1.maxAge = Absent
      cc2 == IF addMaxAge
             THEN ccReplacer([cc1 EXCEPT !.maxAge = DefaultMaxAge]) ELSE cc1
      h3 == IF addMaxAge THEN cc2 ELSE h2
  IN [status |-> o.status,
      private |-> h3.private, noStore |-> h3.noStore, noCache |-> h3.noCache,
      ncsc |-> h3.ncsc, public |-> h3.public,
      maxAge |-> h3.maxAge, sMaxAge |-> h3.sMaxAge, sie |-> h3.sie,
      vary |-> o.vary, expires |-> o.expires, lastMod |-> o.lastMod,
      setCookie |-> IF o.ncsc THEN <<>> ELSE kept,
      cookies |-> kept,
      body |-> b, etag |-> IF cc2.noStore THEN 0 ELSE b,
      rh |-> Headers(rq), born |-> t, src |-> b]

\* One hour, in seconds: the default Expires is an hour after now.
Hour == 3600

\* The origin response as Standardize leaves it, which is what is forwarded:
\* Set-Cookie filtered, Last-Modified and Expires defaulted, Cache-Control
\* as the origin sent it.
ForwardedForm(o, t) ==
  [o EXCEPT !.cookies = AllowedSetCookies(o.cookies),
            !.lastMod = IF o.lastMod = Absent THEN t ELSE o.lastMod,
            !.expires = IF o.expires = Absent THEN t + Hour ELSE o.expires]

\* responseImpl.Age: whole seconds since the response was standardised.
Age(resp, t) == t - resp.born

\* utilities.GetMaxAge on a response's Cache-Control: s-maxage first.
GetMaxAge(cc) ==
  IF cc.sMaxAge # Absent THEN <<cc.sMaxAge, TRUE>>
  ELSE IF cc.maxAge # Absent THEN <<cc.maxAge, TRUE>>
  ELSE <<0, FALSE>>

\* An Expires header that is "0" or no date in any of the four layouts.
Unparseable == 0 - 3

\* A freshness test that still accepts age = delta.
FreshInclusive(age, delta) == age <= delta

\* Validate's freshness test: int(time.Since(r.now)/time.Second) < delta.
Fresh(age, delta) == age < delta

\* A precondition test that lets since = modified through.
PreconditionFailedStrict(since, modified) == since < modified

\* Validate's If-Unmodified-Since test: !ifUnmodifiedSince.After(modified).
PreconditionFailed(since, modified) == ~(since > modified)

\* responseImpl.Validate(req) at time t: <<valid, status code>>.
Validate(resp, req, t) ==
  IF req.cc.mustRevalidate \/ req.cc.proxyRevalidate
  THEN IF resp.sMaxAge # Absent THEN <<Fresh(Age(resp, t), resp.sMaxAge), StatusNotModified>>
       ELSE IF resp.maxAge # Absent THEN <<Fresh(Age(resp, t), resp.maxAge), StatusNotModified>>
       ELSE IF resp.expires \in {Absent, Unparseable} THEN <<FALSE, 0>>
       ELSE <<resp.born < resp.expires, StatusNotModified>>
  ELSE IF req.ims # Absent \/ req.ius # Absent
  THEN IF resp.lastMod = Absent THEN <<FALSE, 0>>
       ELSE IF req.ims # Absent THEN <<resp.lastMod < req.ims, StatusNotModified>>
       ELSE IF PreconditionFailed(req.ius, resp.lastMod) THEN <<TRUE, StatusPreconditionFailed>>
       ELSE <<FALSE, StatusOK>>
  ELSE <<TRUE, StatusNotModified>>

\* An isNotModified that never matches the ETag.
isNotModifiedNever(req, resp) == FALSE

isNotModified(req, resp) == req.inm # 0 /\ req.inm = resp.etag

\* A hook that never answers the leader without a body on Validate's word.
canRespondWithoutBodyNever(req) == FALSE

\* fetch.canRespondWithoutBody
canRespondWithoutBody(req) ==
  \/ req.cc.mustRevalidate
  \/ req.cc.proxyRevalidate
  \/ req.ims # Absent
  \/ req.ius # Absent

\* singleflight.Write's first test: the response may not be shared.
Unshareable(resp) == resp.private \/ resp.noStore \/ resp.vary = <<"*">>

\* ------------------------------------------------------------------- state
VARIABLES
  req,            \* req[r]: the request of client r (its headers change when
                  \* Write sets X-Honey-Vary)
  frames,         \* frames[r]: the Fetch invocations running on r's request,
                  \* innermost last
  sink,           \* sink[r]: what r's ResponseWriter has received
  now,            \* the clock, in seconds
  entries,        \* defaultCacher.entries: hash -> Response
  vary,           \* defaultCacher.vary: hash -> Vary header
  singleflights,  \* fetch.singleflights: hash -> group (named by its leader)
  groups,         \* groups[g]: the singleflight created by request g
  task,           \* task[r]: the goroutine FlushSingleflight started on the
                  \* response to r
  origin,         \* the responses the origin server may give
  early,          \* early[r]: r looked in the store before any origin
                  \* response had come back
  result          \* result[r]: what the call made on its own for request r
                  \* returned (Validate, Standardize), <<>> before it

vars == <<req, frames, sink, now, entries, vary, singleflights, groups, task,
          origin, early, result>>

NoWriter == [kind |-> "none", id |-> 0]

NewSingleflight ==
  [requests |-> <<>>, response |-> NoResp, done |-> FALSE, cacheable |-> TRUE,
   n |-> 0, lag |-> 0, writer |-> NoWriter, wresp |-> NoResp, queue |-> <<>>,
   cur |-> 0]

NoTask == [pc |-> "none", grp |-> 0, hash |-> <<>>, resp |-> NoResp]

NoSink == [n |-> 0, status |-> 0, body |-> 0, xhc |-> "", warn |-> FALSE]

\* A Fetch invocation: where it is, the hash it computed, the group it
\* joined or leads, the group whose Write called it as handler (0: the
\* server did), whether it writes to a detached recorder, and, for a
\* registration with AddWriter, how often it was dispatched (d) and the
\* response of the Write that handled it (wr).
NewFrame(by, rec) ==
  [pc |-> "fetch", hash |-> <<>>, grp |-> 0, by |-> by, rec |-> rec,
   d |-> 0, wr |-> NoResp]

Top(r) == frames[r][Len(frames[r])]

SetTop(r, f) == [frames EXCEPT ![r][Len(frames[r])] = f]

\* The Fetch invocation returns: to the server, or to the Write that called it.
Returned(f) == [f EXCEPT !.pc = IF f.by = 0 THEN "done" ELSE "ret"]

\* A Done has taken a completion counter below zero: the WaitGroup panics in
\* a goroutine nobody recovers, and the process is gone.
Crashed == \E g \in Reqs : groups[g].n < 0

Running(r, p) == ~Crashed /\ frames[r] # <<>> /\ Top(r).pc = p

\* http.ResponseWriter: WriteHeader and Write, after the headers were set.
Respond(s, rec, status, body, xhc, warn) ==
  IF rec THEN s
  ELSE [n |-> s.n + 1, status |-> status, body |-> body, xhc |-> xhc,
        warn |-> warn]

\* ------------------------------------------------------------ the mediator
\* A RespondFromCache that looks at Cache-Control only.
NoCacheRequestedByCacheControl(rq) == rq.cc.noCache

\* RespondFromCache's test for a request that wants a fresh response.
NoCacheRequested(rq) == rq.cc.noCache \/ rq.pragma = "no-cache"

\* fetch.RespondFromCache: the hash, whether the sink was answered from the
\* store, whether a background refresh is wanted, and status and body sent.
RespondFromCache(memo, store, rq, t) ==
  LET hash == Hash(memo, rq)
      found == hash \in DOMAIN store
      resp == IF found THEN store[hash] ELSE NoResp
      intent == rq.cc.mustRevalidate \/ rq.cc.proxyRevalidate \/ rq.cc.maxAge # Absent
      v == Validate(resp, rq, t)
      maxAge == IF rq.cc.maxAge # Absent THEN rq.cc.maxAge ELSE 0
      stale == /\ ~v[1]
               /\ rq.cc.swr # Absent
               /\ maxAge + rq.cc.swr > Age(resp, t)
      responded == IF found /\ intent THEN v[1] \/ stale ELSE found
      code == IF found /\ intent THEN v[2] ELSE StatusNotModified
  IN IF NoCacheRequested(rq)
     THEN [hash |-> hash, responded |-> FALSE, revalidate |-> FALSE,
           status |-> 0, body |-> 0]
     ELSE [hash |-> hash, responded |-> responded,
           revalidate |-> found /\ intent /\ stale,
           status |-> IF ~responded THEN 0
                      ELSE IF isNotModified(rq, resp) THEN code ELSE resp.status,
           body |-> IF ~responded \/ isNotModified(rq, resp) THEN 0 ELSE resp.body]

\* A Fetch that does not look for only-if-cached.
OnlyIfCachedIgnored(rq) == FALSE

\* Fetch's test for the only-if-cached reply.
OnlyIfCached(rq) == rq.cc.onlyIfCached

\* fetch.Fetch up to the single-flight registration: SwitchBackend, CanCache,
\* RespondFromCache and the only-if-cached reply.
FetchStart(r) ==
  /\ Running(r, "fetch")
  /\ LET f == Top(r)
         rq == SwitchBackend(req[r])
         rc == RespondFromCache(vary, entries, rq, now)
     IN IF ~CanCache(rq)
        THEN /\ sink' = [sink EXCEPT ![r].xhc = IF f.rec THEN @ ELSE "NO-CACHE"]
             /\ frames' = SetTop(r, [f EXCEPT !.pc = "forward"])
             /\ early' = early
        ELSE /\ early' = [early EXCEPT ![r] =
                          IF f.by = 0 THEN \A q \in Reqs : task[q].pc = "none" ELSE @]
             /\ IF rc.responded
                THEN /\ sink' = [sink EXCEPT ![r] = Respond(@, f.rec, rc.status, rc.body, "HIT", FALSE)]
                     /\ frames' = SetTop(r, Returned(f))
                ELSE IF rc.revalidate
                THEN /\ sink' = sink
                     /\ frames' = SetTop(r, [f EXCEPT !.pc = "sf", !.hash = rc.hash, !.rec = TRUE])
                ELSE IF OnlyIfCached(rq)
                THEN /\ sink' = [sink EXCEPT ![r] = Respond(@, f.rec, StatusGatewayTimeout, 0, @.xhc, FALSE)]
                     /\ frames' = SetTop(r, Returned(f))
                ELSE /\ sink' = sink
                     /\ frames' = SetTop(r, [f EXCEPT !.pc = "sf", !.hash = rc.hash])
  /\ req' = [req EXCEPT ![r] = SwitchBackend(@)]
  /\ UNCHANGED <<now, entries, vary, singleflights, groups, task, origin, result>>

\* fetch.RespondFromSingleflight, the LoadOrStore: join the group registered
\* under the hash, or register a new one and become its leader (the Forwarder
\* is then invoked).
Register(r) ==
  /\ Running(r, "sf")
  /\ LET f == Top(r)
     IN IF f.hash \in DOMAIN singleflights
        THEN /\ frames' = SetTop(r, [f EXCEPT !.pc = "addwriter", !.grp = singleflights[f.hash]])
             /\ UNCHANGED <<singleflights, groups>>
        ELSE /\ frames' = SetTop(r, [f EXCEPT !.pc = "forward", !.grp = r])
             /\ singleflights' = (f.hash :> r) @@ singleflights
             /\ groups' = [groups EXCEPT ![r] = NewSingleflight]
  /\ UNCHANGED <<req, sink, now, entries, vary, task, origin, result, early>>

\* A Cacheable that never reports the missing response.
CacheableReady(m) == [cacheable |-> m.cacheable, err |-> FALSE]

\* singleflight.Cacheable: the flag, and the error while no response was
\* recorded.
Cacheable(m) == [cacheable |-> m.cacheable, err |-> m.response = NoResp]

\* singleflight.AddWriter, under the group's lock: register the waiter; when
\* Write has already been called the waiter calls it again itself.
AddWriter(r) ==
  /\ Running(r, "addwriter")
  /\ LET f == Top(r)
         m == groups[f.grp]
     IN /\ m.writer = NoWriter
        /\ groups' = [groups EXCEPT ![f.grp].requests = Append(@, r), ![f.grp].n = @ + 1]
        /\ frames' = SetTop(r, [f EXCEPT !.pc = IF m.done THEN "latewrite" ELSE "wait"])
  /\ UNCHANGED <<req, sink, now, entries, vary, singleflights, task, origin, result, early>>

\* singleflight.Wait returns once the completion counter is zero.
Wait(r) ==
  /\ Running(r, "wait")
  /\ groups[Top(r).grp].n = 0
  /\ frames' = SetTop(r, [Top(r) EXCEPT !.pc = "delete"])
  /\ UNCHANGED <<req, sink, now, entries, vary, singleflights, groups, task, origin, result, early>>

Delete(reg, hash) == [h \in DOMAIN reg \ {hash} |-> reg[h]]

\* The waiter, back from Wait, deletes the hash from the registry and
\* RespondFromSingleflight returns true.
WaiterDelete(r) ==
  /\ Running(r, "delete")
  /\ singleflights' = Delete(singleflights, Top(r).hash)
  /\ frames' = SetTop(r, Returned(Top(r)))
  /\ UNCHANGED <<req, sink, now, entries, vary, groups, task, origin, result, early>>

\* ----------------------------------------------------------- the coalescer
\* The Vary signature of waiter w against response resp, and the leader's.
Bucket(w, resp) ==
  GetVaryHeadersHash(Headers(req[w]), req[w].cookies, allowedCookieNames, resp.vary)

LeaderBucket(resp) ==
  GetVaryHeadersHash(resp.rh, resp.cookies, allowedCookieNames, resp.vary)

\* The waiters Write answers with resp itself, and those it hands to the handler.
Matching(g, resp) ==
  LET Same(w) == Bucket(w, resp) = LeaderBucket(resp)
  IN SelectSeq(groups[g].requests, Same)

\* A Write that forgets the waiters of the other buckets.
OthersDropped(g, resp) == <<>>

Others(g, resp) ==
  LET Differs(w) == Bucket(w, resp) # LeaderBucket(resp)
  IN SelectSeq(groups[g].requests, Differs)

\* The frame of w that is registered on group g.
FrameOf(w, g) ==
  CHOOSE i \in DOMAIN frames[w] :
    frames[w][i].grp = g /\ frames[w][i].pc \in {"wait", "latewrite", "latewriting"}

\* Write finishes without calling the handler: nothing to re-dispatch.
WriteCompletes(g, resp) == Unshareable(resp) \/ Others(g, resp) = <<>>

\* A Write that sends status and body whatever the waiter's If-None-Match.
DispatchWithBody(s, rec, rq, resp) ==
  Respond(s, rec, resp.status, resp.body, "MISS (MULTIPLEXED)", FALSE)

\* What Write sends to a waiter of the leader's bucket.
Dispatch(s, rec, rq, resp) ==
  IF isNotModified(rq, resp)
  THEN Respond(s, rec, StatusNotModified, 0, "MISS (MULTIPLEXED)", FALSE)
  ELSE Respond(s, rec, resp.status, resp.body, "MISS (MULTIPLEXED)", FALSE)

\* singleflight.Write(resp) on group g by owner, from taking the lock to the
\* start of the handler loop: an unshareable response releases every waiter
\* unwritten; otherwise the waiters of the leader's bucket are written and
\* released and the others are queued for the handler.  fr is the owner's
\* own frame change.  When nothing is queued the deferred part runs too.
\* The goroutine that releases the waiters of an unshareable response reads
\* m.requests without the lock: with waiters registered Write's Wait returns
\* only after it has called Done for each of them, but with none registered
\* Wait returns at once and the goroutine may read the list later (lag), up
\* to MaxLag of them at a time.
WriteBegin(g, resp, owner, fr) ==
  LET m == groups[g]
      match == Matching(g, resp)
      others == IF Unshareable(resp) THEN <<>> ELSE Others(g, resp)
      handled(w) == InSeq(w, m.requests)
      written(w) == ~Unshareable(resp) /\ InSeq(w, match)
  IN /\ ~Crashed
     /\ m.writer = NoWriter
     /\ sink' = [w \in Reqs |->
                  IF written(w)
                  THEN Dispatch(sink[w], frames[w][FrameOf(w, g)].rec, req[w], resp)
                  ELSE sink[w]]
     /\ frames' = [w \in Reqs |->
                    IF handled(w)
                    THEN [fr[w] EXCEPT ![FrameOf(w, g)].wr = resp,
                                       ![FrameOf(w, g)].d = IF written(w) THEN @ + 1 ELSE @]
                    ELSE fr[w]]
     /\ groups' = [groups EXCEPT ![g] =
          IF others = <<>>
          THEN [m EXCEPT !.cacheable = IF Unshareable(resp) THEN FALSE ELSE @,
                         !.n = @ - Len(m.requests),
                         !.lag = IF Unshareable(resp) /\ m.requests = <<>> /\ @ < MaxLag
                                 THEN @ + 1 ELSE @,
                         !.response = resp, !.done = TRUE, !.requests = <<>>]
          ELSE [m EXCEPT !.n = @ - Len(match), !.writer = owner, !.wresp = resp,
                         !.queue = others]]

\* The handler loop of Write: the previous handler call, if any, has
\* returned (m.Done()); set X-Honey-Vary on the next waiter's request and
\* call the handler, which is Fetch, on its sink and request.
Redispatch(g) ==
  LET m == groups[g]
      w == Head(m.queue)
      prev == m.cur
  IN /\ ~Crashed
     /\ m.writer # NoWriter
     /\ m.queue # <<>>
     /\ prev # 0 => Running(prev, "ret")
     /\ Len(frames[w]) < MaxDepth
     /\ req' = [req EXCEPT ![w].xhv = Bucket(w, m.wresp)]
     /\ frames' = [x \in Reqs |->
                    IF x = w
                    THEN Append([frames[w] EXCEPT ![FrameOf(w, g)].d = @ + 1],
                                NewFrame(g, frames[w][FrameOf(w, g)].rec))
                    ELSE IF x = prev THEN SubSeq(frames[x], 1, Len(frames[x]) - 1)
                    ELSE frames[x]]
     /\ groups' = [groups EXCEPT ![g].queue = Tail(@), ![g].cur = w,
                                 ![g].n = IF prev # 0 THEN @ - 1 ELSE @]
     /\ UNCHANGED <<sink, now, entries, vary, singleflights, task, origin, result, early>>

\* The end of Write: the last handler call has returned, the counter is zero,
\* the deferred function records the response and unlocks; the owner goes on.
WriteEnd(g) ==
  LET m == groups[g]
      prev == m.cur
      popped == [x \in Reqs |->
                  IF x = prev THEN SubSeq(frames[x], 1, Len(frames[x]) - 1)
                  ELSE frames[x]]
  IN /\ ~Crashed
     /\ m.writer # NoWriter
     /\ m.queue = <<>>
     /\ prev # 0 => Running(prev, "ret")
     /\ (IF prev # 0 THEN m.n - 1 ELSE m.n) = 0
     /\ groups' = [groups EXCEPT ![g] =
          [m EXCEPT !.n = 0, !.cur = 0, !.writer = NoWriter, !.wresp = NoResp,
                    !.response = m.wresp, !.done = TRUE, !.requests = <<>>]]
     /\ IF m.writer.kind = "task"
        THEN /\ task' = [task EXCEPT ![m.writer.id].pc = "delete"]
             /\ frames' = popped
        ELSE /\ task' = task
             /\ frames' = [popped EXCEPT ![m.writer.id][Len(popped[m.writer.id])].pc = "wait"]
     /\ UNCHANGED <<req, sink, now, entries, vary, singleflights, origin, result, early>>

\* AddWriter found the group done: the waiter itself calls Write(m.response).
LateWrite(r) ==
  /\ Running(r, "latewrite")
  /\ LET g == Top(r).grp
         resp == groups[g].response
     IN WriteBegin(g, resp, [kind |-> "req", id |-> r],
          SetTop(r, [Top(r) EXCEPT !.pc = IF WriteCompletes(g, resp) THEN "wait" ELSE "latewriting"]))
  /\ UNCHANGED <<req, now, entries, vary, singleflights, task, origin, result, early>>

\* A goroutine left behind by a Write of an unshareable response reads
\* m.requests now and calls Done once for each waiter it finds there.
LagDone(g) ==
  /\ ~Crashed
  /\ groups[g].lag > 0
  /\ groups' = [groups EXCEPT ![g].lag = @ - 1,
                              ![g].n = @ - Len(groups[g].requests)]
  /\ UNCHANGED <<req, frames, sink, now, entries, vary, singleflights, task, origin, result, early>>

\* The goroutine of FlushSingleflight: multi.Write(response) ...
TaskWrite(t) ==
  /\ task[t].pc = "write"
  /\ WriteBegin(task[t].grp, task[t].resp, [kind |-> "task", id |-> t], frames)
  /\ task' = [task EXCEPT ![t].pc = IF WriteCompletes(task[t].grp, task[t].resp) THEN "delete" ELSE "writing"]
  /\ UNCHANGED <<req, now, entries, vary, singleflights, origin, result, early>>

\* ... then singleflights.Delete(hash) and the completion signal.
TaskDelete(t) ==
  /\ ~Crashed
  /\ task[t].pc = "delete"
  /\ singleflights' = Delete(singleflights, task[t].hash)
  /\ task' = [task EXCEPT ![t].pc = "finished"]
  /\ UNCHANGED <<req, frames, sink, now, entries, vary, groups, origin, result, early>>

\* --------------------------------------------------------------- the store
\* defaultCacher.Cache(hash, resp): the Vary memo under hash, then the entry
\* under hash extended by the Vary signature of the response's own request.
CacheVary(memo, hash, resp) ==
  IF resp.vary # <<>> THEN (hash :> resp.vary) @@ memo ELSE memo

CacheEntries(store, hash, resp) ==
  (hash \o LeaderBucket(resp) :> resp) @@ store

\* defaultCacher.Load(hash, request): the entry stored under exactly hash.
Load(store, hash) ==
  [found |-> hash \in DOMAIN store,
   resp |-> IF hash \in DOMAIN store THEN store[hash] ELSE NoResp]

\* --------------------------------------------- the response-modifier hook
\* A FlushSingleflight that admits every response.
AdmitAll(resp) == TRUE

\* The test of FlushSingleflight that admits a response to the store.
Admissible(resp) == ~resp.noStore /\ resp.status < ServerError

\* Whether FlushSingleflight serves prev in place of the error response resp.
ServeStale(resp, found, prev, t) ==
  /\ resp.status >= ServerError
  /\ resp.sie # Absent
  /\ found
  /\ \/ resp.sie = Star
     \/ /\ GetMaxAge(resp)[2]
        /\ Age(prev, t) - GetMaxAge(resp)[1] < resp.sie

\* A hook that marks the response it found no group for.
MarkedMiss(s, rec, o, r) == Respond(s, rec, o.status, r, "MISS", FALSE)

\* FlushSingleflight found no group under the hash and returned nil: the
\* Forwarder writes the origin's response as it came, after the headers the
\* sink already has.
Unmodified(s, rec, o, r) == Respond(s, rec, o.status, r, s.xhc, FALSE)

\* The Forwarder gets origin response o for request r, calls
\* FlushSingleflight on it and writes the result to r's sink; Fetch returns.
\* FlushSingleflight: no group under Hash(r.Request): nothing.  Otherwise
\* Standardize, Cache if admissible, the stale-if-error replacement, the
\* X-Honey-Cache header, the goroutine (task) and the leader's downgrade.
OriginRespond(r, o) ==
  /\ Running(r, "forward")
  /\ o \in origin
  /\ LET f == Top(r)
         rq == req[r]
         hash == Hash(vary, rq)
         found == hash \in DOMAIN singleflights
         response == Standardize(o, r, rq, now)
         admit == Admissible(response)
         vary1 == IF admit THEN CacheVary(vary, hash, response) ELSE vary
         entries1 == IF admit THEN CacheEntries(entries, hash, response) ELSE entries
         hash2 == Hash(vary1, rq)
         prevFound == hash2 \in DOMAIN entries1
         prev == IF prevFound THEN entries1[hash2] ELSE NoResp
         stale == ServeStale(response, prevFound, prev, now)
         out == IF stale THEN prev ELSE response
         xhc == IF sink[r].xhc # "" THEN sink[r].xhc
                ELSE IF stale THEN "STALE" ELSE "MISS"
         v == Validate(out, rq, now)
     IN IF ~found
        THEN /\ sink' = [sink EXCEPT ![r] = Unmodified(@, f.rec, o, r)]
             /\ task' = [task EXCEPT ![r].pc = "dropped"]
             /\ UNCHANGED <<entries, vary>>
        ELSE /\ entries' = entries1
             /\ vary' = vary1
             /\ task' = [task EXCEPT ![r] =
                  [pc |-> "write", grp |-> singleflights[hash], hash |-> hash, resp |-> out]]
             /\ sink' = [sink EXCEPT ![r] =
                  IF isNotModified(rq, out)
                  THEN Respond(@, f.rec, StatusNotModified, 0, xhc, stale)
                  ELSE IF canRespondWithoutBody(rq) /\ v[1]
                  THEN Respond(@, f.rec, v[2], 0, xhc, stale)
                  ELSE Respond(@, f.rec, o.status, r, xhc, stale)]
  /\ frames' = SetTop(r, Returned(Top(r)))
  /\ UNCHANGED <<req, now, singleflights, groups, origin, result, early>>

\* One second passes.
Tick ==
  /\ ~Crashed
  /\ now < MaxTime
  /\ now' = now + 1
  /\ UNCHANGED <<req, frames, sink, entries, vary, singleflights, groups, task, origin, result, early>>

\* ------------------------------------------------------ the specification
\* The requests of a burst: plain GETs in two languages, and one carrying
\* Authorization (which CanCache rejects).
Profiles ==
  <<PlainReq, [PlainReq EXCEPT !.lang = "ru"], [PlainReq EXCEPT !.auth = TRUE]>>

\* The origin's answers: shareable without and with Vary, and private.
Origins ==
  {OriginBase, [OriginBase EXCEPT !.vary = <<"Accept-Language">>],
   [OriginBase EXCEPT !.private = TRUE]}

\* The clients are interchangeable, so a burst is taken up to renaming: the
\* requests are listed in the order of their profiles.
Bursts(profiles) ==
  {f \in [Reqs -> DOMAIN profiles] : \A i, j \in Reqs : i < j => f[i] <= f[j]}

InitWith(profiles, origins) ==
  /\ \E f \in Bursts(profiles) : req = [r \in Reqs |-> profiles[f[r]]]
  /\ frames = [r \in Reqs |-> <<NewFrame(0, FALSE)>>]
  /\ sink = [r \in Reqs |-> NoSink]
  /\ now = 0
  /\ entries = <<>>
  /\ vary = <<>>
  /\ singleflights = <<>>
  /\ groups = [g \in Reqs |-> NewSingleflight]
  /\ task = [r \in Reqs |-> NoTask]
  /\ origin = origins
  /\ early = [r \in Reqs |-> FALSE]
  /\ result = [r \in Reqs |-> <<>>]

Init == InitWith(Profiles, Origins)

Next ==
  \/ \E r \in Reqs : FetchStart(r)
  \/ \E r \in Reqs : Register(r)
  \/ \E r \in Reqs : AddWriter(r)
  \/ \E r \in Reqs : LateWrite(r)
  \/ \E r \in Reqs : Wait(r)
  \/ \E r \in Reqs : WaiterDelete(r)
  \/ \E r \in Reqs : \E o \in origin : OriginRespond(r, o)
  \/ \E t \in Reqs : TaskWrite(t)
  \/ \E g \in Reqs : Redispatch(g)
  \/ \E g \in Reqs : WriteEnd(g)
  \/ \E g \in Reqs : LagDone(g)
  \/ \E t \in Reqs : TaskDelete(t)

Spec == Init /\ [][Next]_vars

\* The same program with the clock running, under requests that carry cache
\* directives and an origin that also fails.
SwrReq ==
  [PlainReq EXCEPT !.cc = [NoCC EXCEPT !.mustRevalidate = TRUE, !.swr = 1]]

OnlyIfCachedReq == [PlainReq EXCEPT !.cc = [NoCC EXCEPT !.onlyIfCached = TRUE]]

NoCacheOnlyIfCachedReq ==
  [PlainReq EXCEPT !.cc = [NoCC EXCEPT !.onlyIfCached = TRUE, !.noCache = TRUE]]

ProfilesTimed ==
  <<[PlainReq EXCEPT !.lang = "ru"], SwrReq, OnlyIfCachedReq, NoCacheOnlyIfCachedReq>>

OriginsTimed ==
  {[OriginBase EXCEPT !.maxAge = 0],
   [OriginBase EXCEPT !.vary = <<"Accept-Language">>],
   [OriginBase EXCEPT !.status = ServerError, !.sie = Star],
   [OriginBase EXCEPT !.noStore = TRUE]}

InitTimed == InitWith(ProfilesTimed, OriginsTimed)

NextTimed == Next \/ Tick

SpecTimed == InitTimed /\ [][NextTimed]_vars

\* ------------------------------------------------------------- the claims
\* The Forwarder is running on r's request (handler.ServeHTTP was called and
\* the response-modifier hook has not run yet).
Forwarding(r) == \E i \in DOMAIN frames[r] : frames[r][i].pc = "forward"

\* The Forwarder was invoked on r's request.
Forwarded(r) == Forwarding(r) \/ task[r].pc # "none"

\* r got false from RespondFromSingleflight and its fetch is in flight.
Leader(r) ==
  \E i \in DOMAIN frames[r] : frames[r][i].pc = "forward" /\ frames[r][i].grp = r

\* The key r registered its group under.
LeaderKey(r) ==
  frames[r][CHOOSE i \in DOMAIN frames[r] :
              frames[r][i].pc = "forward" /\ frames[r][i].grp = r].hash

\* Frame i of r registered on another request's group with AddWriter.
Waiter(r, i) ==
  /\ frames[r][i].grp \notin {0, r}
  /\ frames[r][i].pc \in {"wait", "latewrite", "latewriting", "delete", "done", "ret"}

\* ... and its Wait has returned.
Released(r, i) == Waiter(r, i) /\ frames[r][i].pc \in {"delete", "done", "ret"}

\* FlushSingleflight replaced the response to r by a stored one.
StaleServed(r) == task[r].pc \notin {"none", "dropped"} /\ task[r].resp.src # r

\* C1: for every key at most one request at a time is the leader: no two
\* requests whose fetches are in flight registered their groups under the
\* same hash.
C1_OneLeaderPerKey ==
  \A a, b \in Reqs :
    (a # b /\ Leader(a) /\ Leader(b)) => LeaderKey(a) # LeaderKey(b)

\* C2: in a burst of cacheable requests that looked in the store before any
\* origin response had come back, the Forwarder is invoked at most once for
\* the requests of one Vary bucket (one Accept-Language), so at most once in
\* all when the headers are identical.
C2_OneFetchPerBucket ==
  (\A r \in Reqs : CanCache(req[r])) =>
    \A l \in {"en", "ru"} :
      Cardinality({r \in Reqs : early[r] /\ req[r].lang = l /\ Forwarded(r)}) <= 1

C4_NoDroppedWaiters ==
  (~ENABLED Next) =>
    \A r \in Reqs : \A i \in DOMAIN frames[r] : frames[r][i].pc # "wait"

\* C5: when FlushSingleflight has cached the response to a cacheable request
\* R without no-cache under Hash(R), and the response validates against R,
\* a Fetch of R right after is answered from the store with that body (or a
\* 304 when If-None-Match matches).
C5_CachedThenHit ==
  [][\A r \in Reqs :
       LET resp == task'[r].resp
           rc == RespondFromCache(vary', entries', req[r], now')
       IN (/\ task[r].pc = "none"
           /\ task'[r].pc = "write"
           /\ resp.src = r
           /\ ~resp.noStore /\ resp.status < 500
           /\ CanCache(req[r])
           /\ ~req[r].cc.noCache /\ req[r].pragma # "no-cache"
           /\ Validate(resp, req[r], now')[1])
          => /\ rc.responded
             /\ isNotModified(req[r], resp) \/ rc.body = resp.body]_vars

\* C6: the response to a request CanCache rejected is never in the store and
\* never reaches the sink of another request.
C6_UncacheableNeverShared ==
  \A a \in Reqs :
    ~CanCache(req[a]) =>
      /\ \A h \in DOMAIN entries : entries[h].src # a
      /\ \A w \in Reqs \ {a} : sink[w].body # a

\* C7: every response in the store lacks no-store and has a status below 500.
C7_StoreAdmission ==
  \A h \in DOMAIN entries : ~entries[h].noStore /\ entries[h].status < 500

\* The store holds a response while a waiter was written a 5xx by Write.
C7_Witness ==
  /\ DOMAIN entries # {}
  /\ \E w \in Reqs :
       sink[w].xhc = "MISS (MULTIPLEXED)" /\ sink[w].status >= 500

\* C8: the step of Fetch that finds a stored response invalid but inside its
\* stale-while-revalidate window serves it with X-Honey-Cache: HIT and goes
\* on to the single-flight registration with a detached sink.
C8_StaleServedThenRefreshed ==
  [][\A r \in Reqs :
       (/\ Running(r, "fetch")
        /\ CanCache(req[r])
        /\ RespondFromCache(vary, entries, req[r], now).revalidate
        /\ frames'[r] # frames[r])
       => /\ sink'[r].xhc = "HIT"
          /\ sink'[r].n = sink[r].n + 1
          /\ frames'[r][Len(frames'[r])].pc = "sf"
          /\ frames'[r][Len(frames'[r])].rec]_vars

\* C9: when FlushSingleflight serves a stored response in place of the
\* origin's error, the leader and every waiter Write answers get that
\* response's status and body with X-Honey-Cache: STALE and the Warning
\* header, and no error response is in the store.
C9_StaleIfError ==
  /\ \A h \in DOMAIN entries : entries[h].status < 500
  /\ \A r \in Reqs :
       StaleServed(r) =>
         /\ Forwarding(r) \/
              /\ sink[r].status = task[r].resp.status
              /\ sink[r].body = task[r].resp.body
              /\ sink[r].xhc = "STALE"
              /\ sink[r].warn
         /\ \A w \in Reqs : \A i \in DOMAIN frames[w] :
              (/\ Waiter(w, i)
               /\ frames[w][i].grp = task[r].grp
               /\ frames[w][i].wr = task[r].resp
               /\ frames[w][i].d = 1
               /\ Bucket(w, task[r].resp) = LeaderBucket(task[r].resp))
              => /\ sink[w].body = task[r].resp.body
                 /\ sink[w].xhc = "STALE"
                 /\ sink[w].warn

\* C10: a cacheable only-if-cached request the store does not answer gets
\* one reply, status 504, and Fetch returns: the registry, the groups, the
\* store and the Forwarder's work are as before; and the Forwarder is never
\* invoked on a cacheable only-if-cached request.
C10_OnlyIfCachedMiss ==
  /\ [](\A r \in Reqs :
          (CanCache(req[r]) /\ req[r].cc.onlyIfCached) => ~Forwarded(r))
  /\ [][\A r \in Reqs :
          (/\ Running(r, "fetch")
           /\ CanCache(req[r])
           /\ req[r].cc.onlyIfCached
           /\ ~RespondFromCache(vary, entries, req[r], now).responded
           /\ frames'[r] # frames[r])
          => /\ sink'[r].n = sink[r].n + 1
             /\ sink'[r].status = StatusGatewayTimeout
             /\ frames'[r][Len(frames'[r])].pc = "done"
             /\ UNCHANGED <<singleflights, groups, entries, vary, task>>]_vars

\* An only-if-cached request carrying no-cache too was answered 504 although
\* the store holds a response under its hash.
C10_Witness ==
  \E r \in Reqs :
    /\ req[r].cc.onlyIfCached
    /\ req[r].cc.noCache
    /\ frames[r][1].pc = "done"
    /\ sink[r].status = StatusGatewayTimeout
    /\ Hash(vary, req[r]) \in DOMAIN entries

\* ------------------------------------------- conditional requests (C11-C14)
\* The same program under requests that ask for a fresh response or carry
\* validators.  If-None-Match names the ETag of the body forwarded for
\* request 1, or for request 2.
NoCacheReq == [PlainReq EXCEPT !.cc = [NoCC EXCEPT !.noCache = TRUE]]

PragmaReq == [PlainReq EXCEPT !.pragma = "no-cache", !.lang = "ru"]

InmReq == [PlainReq EXCEPT !.inm = 1]

MustRevalidateInmReq ==
  [PlainReq EXCEPT !.cc = [NoCC EXCEPT !.mustRevalidate = TRUE], !.inm = 2]

ProfilesCond ==
  <<NoCacheReq, PragmaReq, NoCacheOnlyIfCachedReq, InmReq, MustRevalidateInmReq>>

OriginsCond ==
  {OriginBase, [OriginBase EXCEPT !.vary = <<"Accept-Language">>],
   [OriginBase EXCEPT !.private = TRUE]}

InitCond == InitWith(ProfilesCond, OriginsCond)

SpecCond == InitCond /\ [][Next]_vars

\* The step is a step of Fetch on r's request, from its start.
FetchStep(r) == Running(r, "fetch") /\ frames'[r] # frames[r]

C12_UncacheableForwarded ==
  /\ [](\A r \in Reqs :
          req[r].auth
          => /\ Len(frames[r]) = 1
             /\ frames[r][1].pc \in {"fetch", "forward", "done"}
             /\ frames[r][1].grp = 0
             /\ frames[r][1].hash = <<>>
             /\ frames[r][1].pc # "fetch" => sink[r].xhc = "NO-CACHE"
             /\ \A g \in Reqs : ~InSeq(r, groups[g].requests))
  /\ [][\A r \in Reqs :
          (FetchStep(r) /\ req[r].auth)
          => /\ frames'[r][1].pc = "forward"
             /\ sink'[r] = [sink[r] EXCEPT !.xhc = "NO-CACHE"]
             /\ UNCHANGED <<entries, vary, singleflights, groups, task>>]_vars

\* A request with Authorization was forwarded and answered while the store
\* held a response for its method and URL.
C12_Witness ==
  \E r \in Reqs :
    /\ req[r].auth
    /\ frames[r][1].pc = "done"
    /\ sink[r].xhc = "NO-CACHE"
    /\ sink[r].n = 1
    /\ task[r].pc # "none"
    /\ HashBase(req[r]) \in DOMAIN entries

\* ------------------------------------------- unshareable responses (C16, C17)
\* A task has called Write on group g; ... and that Write has returned.
WriteCalled(g) ==
  \E t \in Reqs : task[t].grp = g /\ task[t].pc \in {"writing", "delete", "finished"}

WriteReturned(g) ==
  \E t \in Reqs : task[t].grp = g /\ task[t].pc \in {"delete", "finished"}

\* The step is a call of Write on group g with response resp, by the task of
\* a forwarded request or by a late waiter.
WriteStep(g, resp) ==
  \/ \E t \in Reqs :
       /\ task[t].pc = "write" /\ task'[t].pc # "write"
       /\ task[t].grp = g /\ task[t].resp = resp
  \/ \E r \in Reqs :
       /\ Running(r, "latewrite")
       /\ Len(frames'[r]) = Len(frames[r])
       /\ frames'[r][Len(frames[r])].pc # "latewrite"
       /\ Top(r).grp = g /\ groups[g].response = resp

\* C16: a Write whose response carries private or no-store, or Vary: *,
\* returns false at once: the group is marked uncacheable and done, Cacheable
\* reports (false, no error), no sink is written, and every registered waiter
\* is released (the counter is zero, so Wait returns; a late waiter that has
\* not yet made its own call of Write does so and then returns from Wait).
C16_UnshareableReleases ==
  [][\A g \in Reqs : \A resp \in {task[t].resp : t \in Reqs} :
       (/\ WriteStep(g, resp)
        /\ resp.private \/ resp.noStore \/ resp.vary = <<"*">>)
       => /\ sink' = sink
          /\ groups'[g].writer = NoWriter
          /\ groups'[g].done
          /\ groups'[g].n = 0
          /\ groups'[g].requests = <<>>
          /\ Cacheable(groups'[g]) = [cacheable |-> FALSE, err |-> FALSE]
          /\ \A w \in Reqs :
               InSeq(w, groups[g].requests)
               => /\ frames'[w][FrameOf(w, g)].d = frames[w][FrameOf(w, g)].d
                  /\ frames'[w][FrameOf(w, g)].pc \in {"wait", "latewrite"}]_vars

\* C17: Cacheable reports the not-ready error in every state before the
\* first Write on the group, with or without registered waiters, and no error
\* once a Write on the group has returned.
C17_CacheableReady ==
  \A g \in Reqs :
    /\ ~WriteCalled(g) => Cacheable(groups[g]).err
    /\ WriteReturned(g) => ~Cacheable(groups[g]).err

\* A waiter registered on a group after its Write returned: Cacheable reports
\* no error; another group has waiters and no response yet.
C17_Witness ==
  /\ \E g \in Reqs :
       WriteReturned(g) /\ groups[g].requests # <<>> /\ ~Cacheable(groups[g]).err
  /\ \E g \in Reqs :
       ~WriteCalled(g) /\ groups[g].requests # <<>> /\ Cacheable(groups[g]).err

\* ------------------------------------------------ the background task (C18)
\* r registered a group of its own (it is, or was, a leader).
Led(r) == \E i \in DOMAIN frames[r] : frames[r][i].grp = r

\* The groups in the registry.
Registered == {singleflights[h] : h \in DOMAIN singleflights}

\* C18: once the hook has processed the response to a leader, a background
\* task calls Write on the leader's group, and only after that Write has
\* returned removes the group from the registry: when the task has finished
\* the group is done and no longer registered.
C18_WriteThenRemove ==
  \A r \in Reqs :
    (Led(r) /\ task[r].pc # "none")
    => /\ task[r].pc # "dropped"
       /\ task[r].grp = r
       /\ task[r].pc \in {"delete", "finished"} => groups[r].done
       /\ task[r].pc = "finished" => r \notin Registered

\* ------------------------------------------------- the store (C19, C20)
\* The step is the hook on the response to r calling Cache with it.
CacheStep(r) ==
  /\ Running(r, "forward")
  /\ task'[r].pc = "write"
  /\ entries' # entries

\* C19: after Cache(h, resp), with h = Hash(R) computed before the call and
\* resp the standardised response to R, with or without a Vary header,
\* Load(h, R) finds exactly resp.
C19_StoreRoundTrip ==
  [][\A r \in Reqs :
       CacheStep(r)
       => \E o \in origin :
            Load(entries', Hash(vary, req[r])) =
              [found |-> TRUE, resp |-> Standardize(o, r, req[r], now)]]_vars

\* --------------------------------------------------- Vary inputs (C15, C20)
\* The same program under responses whose Vary header lists two headers
\* ("Accept-Encoding, Accept-Language": the list is split on commas only, so
\* the second token keeps its leading space), names cookie, or is *; one
\* request carries the allow-listed cookie.
CookieReq == [PlainReq EXCEPT !.cookies = <<<<"session", "a">>>>]

ProfilesVary == <<PlainReq, [PlainReq EXCEPT !.lang = "ru"], CookieReq>>

OriginsVary ==
  {[OriginBase EXCEPT !.vary = <<"Accept-Encoding", " Accept-Language">>],
   [OriginBase EXCEPT !.vary = <<"cookie">>],
   [OriginBase EXCEPT !.vary = <<"*">>]}

InitVary == InitWith(ProfilesVary, OriginsVary)

SpecVary == InitVary /\ [][Next]_vars

\* The header a token of the Vary list names.
HeaderNamed(token) ==
  IF token = " Accept-Language" THEN "Accept-Language" ELSE token

\* Request w and the request resp was produced for agree on every input the
\* Vary header of resp names: each named header and, for cookie, every
\* allow-listed request cookie.
Agrees(w, resp) ==
  \A i \in DOMAIN resp.vary :
    IF resp.vary[i] = "cookie"
    THEN CookieSig(req[w].cookies, allowedCookieNames)
           = CookieSig(req[resp.src].cookies, allowedCookieNames)
    ELSE HeaderGet(Headers(req[w]), HeaderNamed(resp.vary[i]))
           = HeaderGet(resp.rh, HeaderNamed(resp.vary[i]))

\* C15: Write serves a waiter the leader's response only if the waiter's
\* request agrees with the leader's on every input the response's Vary
\* names, and every waiter that disagrees is queued for the handler.
C15_VaryBucketing ==
  [][\A g \in Reqs : \A resp \in {task[t].resp : t \in Reqs} :
       WriteStep(g, resp)
       => \A w \in Reqs :
            InSeq(w, groups[g].requests)
            => /\ sink'[w] # sink[w] => Agrees(w, resp)
               /\ (~Agrees(w, resp) /\ ~Unshareable(resp))
                  => (InSeq(w, groups'[g].queue) /\ sink'[w] = sink[w])]_vars

\* C20: a lookup for a request (Hash, then Load) finds a stored response
\* only if the request agrees with the request the response was produced
\* for on every Vary header and, for cookie, on every allow-listed cookie.
C20_VaryIsolation ==
  \A rb \in Reqs :
    Load(entries, Hash(vary, req[rb])).found
    => Agrees(rb, Load(entries, Hash(vary, req[rb])).resp)

\* --------------------------------------------------- cache hits (C13)
\* The request states a revalidation intent (must-revalidate,
\* proxy-revalidate or max-age in its Cache-Control).
Intent(rq) == rq.cc.mustRevalidate \/ rq.cc.proxyRevalidate \/ rq.cc.maxAge # Absent

UrlsHash == {"/", "/::en"}

CookiesHash == {<<>>, <<<<"session", "a">>>>, <<<<"tracker", "a">>>>}

RequestsHash ==
  {[PlainReq EXCEPT !.url = u, !.lang = l, !.enc = e, !.cookies = c] :
     u \in UrlsHash, l \in {"en", "ru"}, e \in {"", "gzip"}, c \in CookiesHash}

MemosHash ==
  {<<>>} \cup {(HashBase(PlainReq) :> v) :
                 v \in {<<"Accept-Language">>, <<"Accept-Encoding">>, <<"cookie">>}}

InitHash ==
  /\ req \in {f \in [Reqs -> RequestsHash] : \A r \in Reqs : r > 2 => f[r] = PlainReq}
  /\ vary \in MemosHash
  /\ frames = [r \in Reqs |-> <<NewFrame(0, FALSE)>>]
  /\ sink = [r \in Reqs |-> NoSink]
  /\ now = 0
  /\ entries = <<>>
  /\ singleflights = <<>>
  /\ groups = [g \in Reqs |-> NewSingleflight]
  /\ task = [r \in Reqs |-> NoTask]
  /\ origin = {OriginBase}
  /\ early = [r \in Reqs |-> FALSE]
  /\ result = [r \in Reqs |-> <<>>]

\* hash = c.Hash(r)
HashRequest(r) ==
  /\ Running(r, "fetch")
  /\ frames' = SetTop(r, [Top(r) EXCEPT !.hash = Hash(vary, req[r]), !.pc = "done"])
  /\ UNCHANGED <<req, sink, now, entries, vary, singleflights, groups, task, origin, result, early>>

NextHash == \E r \in Reqs : HashRequest(r)

SpecHash == InitHash /\ [][NextHash]_vars

\* The hash string computed for r.
Hashed(r) == frames[r][1].pc = "done"

HashOf(r) == Text(frames[r][1].hash)

\* C21: two requests with the same method, URL and cookies and different
\* Accept-Encoding headers get different hashes.
C21_AcceptEncodingInKey ==
  \A r1, r2 \in Reqs :
    (/\ Hashed(r1) /\ Hashed(r2)
     /\ req[r1].method = req[r2].method
     /\ req[r1].url = req[r2].url
     /\ req[r1].cookies = req[r2].cookies
     /\ req[r1].enc # req[r2].enc)
    => HashOf(r1) # HashOf(r2)

\* The Vary header memoised for r's method and URL ("" when none).
Memoised(r) ==
  IF HashBase(req[r]) \in DOMAIN vary THEN vary[HashBase(req[r])] ELSE <<>>

\* C22: requests that agree on method, URL, Accept-Encoding, allow-listed
\* cookies, the memoised Vary inputs and X-Honey-Vary get equal hashes;
\* requests that differ in URL, or in an allow-listed cookie when the
\* memoised Vary names cookie, get different hashes.
C22_HashInputs ==
  \A r1, r2 \in Reqs :
    (Hashed(r1) /\ Hashed(r2))
    => /\ (/\ req[r1].method = req[r2].method
           /\ req[r1].url = req[r2].url
           /\ req[r1].enc = req[r2].enc
           /\ CookieSig(req[r1].cookies, allowedCookieNames)
                = CookieSig(req[r2].cookies, allowedCookieNames)
           /\ \A i \in DOMAIN Memoised(r1) :
                Memoised(r1)[i] # "cookie"
                => HeaderGet(Headers(req[r1]), Memoised(r1)[i])
                     = HeaderGet(Headers(req[r2]), Memoised(r1)[i])
           /\ req[r1].xhv = req[r2].xhv)
          => HashOf(r1) = HashOf(r2)
       /\ req[r1].url # req[r2].url => HashOf(r1) # HashOf(r2)
       /\ (/\ req[r1].url = req[r2].url
           /\ InSeq("cookie", Memoised(r1))
           /\ CookieSig(req[r1].cookies, allowedCookieNames)
                # CookieSig(req[r2].cookies, allowedCookieNames))
          => HashOf(r1) # HashOf(r2)

\* ------------------------------------------- Validate as a function (C23-C26)
\* Validate applied, at time 0 or one second later, to a response stored at
\* time 0 with every combination of s-maxage, max-age, Expires and
\* Last-Modified, for requests with and without a revalidation directive,
\* If-Modified-Since and If-Unmodified-Since.
RequestsValidate ==
  {[PlainReq EXCEPT !.cc = [NoCC EXCEPT !.mustRevalidate = m, !.proxyRevalidate = p],
                    !.ims = i, !.ius = u] :
     m \in BOOLEAN, p \in BOOLEAN, i \in {Absent, 0, 1}, u \in {Absent, 0, 1}}

ResponsesValidate ==
  {[Standardize(OriginBase, 1, PlainReq, 0)
      EXCEPT !.sMaxAge = s, !.maxAge = a, !.expires = e, !.lastMod = l] :
     s \in {Absent, 0, 1, 2}, a \in {Absent, 1, 2},
     e \in {Absent, Unparseable, 1, 2}, l \in {Absent, 0, 1}}

InitValidate ==
  /\ req \in {f \in [Reqs -> RequestsValidate] : \A r \in Reqs : r > 1 => f[r] = PlainReq}
  /\ entries \in {(HashBase(PlainReq) :> resp) : resp \in ResponsesValidate}
  /\ vary = <<>>
  /\ frames = [r \in Reqs |-> <<NewFrame(0, FALSE)>>]
  /\ sink = [r \in Reqs |-> NoSink]
  /\ now = 0
  /\ singleflights = <<>>
  /\ groups = [g \in Reqs |-> NewSingleflight]
  /\ task = [r \in Reqs |-> NoTask]
  /\ origin = {OriginBase}
  /\ early = [r \in Reqs |-> FALSE]
  /\ result = [r \in Reqs |-> <<>>]

\* The stored response.
Stored == entries[HashBase(PlainReq)]

\* valid, code := resp.Validate(r)
ValidateStored(r) ==
  /\ Running(r, "fetch")
  /\ result' = [result EXCEPT ![r] = Validate(Stored, req[r], now)]
  /\ frames' = SetTop(r, [Top(r) EXCEPT !.pc = "done"])
  /\ UNCHANGED <<req, sink, now, entries, vary, singleflights, groups, task, origin, early>>

NextValidate == (\E r \in Reqs : ValidateStored(r)) \/ Tick

SpecValidate == InitValidate /\ [][NextValidate]_vars

\* The step is a call of Validate for r.
ValidateStep(r) == result[r] = <<>> /\ result'[r] # <<>>

\* The request asks for revalidation.
Revalidates(rq) == rq.cc.mustRevalidate \/ rq.cc.proxyRevalidate

\* C23: for a request with must-revalidate or proxy-revalidate and a stored
\* response with s-maxage=N, or else max-age=N, Validate returns
\* (age < N, 304), age being the whole seconds since the response's birth;
\* s-maxage decides when both are there.
C23_MaxAgeBranch ==
  [][\A r \in Reqs :
       (/\ ValidateStep(r)
        /\ Revalidates(req[r])
        /\ Stored.sMaxAge # Absent \/ Stored.maxAge # Absent)
       => LET n == IF Stored.sMaxAge # Absent THEN Stored.sMaxAge ELSE Stored.maxAge
          IN result'[r] = <<now - Stored.born < n, StatusNotModified>>]_vars

\* Validate found a response with s-maxage=1 and max-age=2 invalid at age 1.
C23_Witness ==
  /\ Revalidates(req[1])
  /\ Stored.sMaxAge = 1 /\ Stored.maxAge = 2
  /\ now = 1
  /\ result[1] = <<FALSE, StatusNotModified>>

\* C24: for a request that asks for revalidation and a stored response
\* without s-maxage and max-age, Validate returns (now < Expires, 304), now
\* being the time of the call; (false, 0) for an empty, "0" or unparseable
\* Expires.
C24_ExpiresBranch ==
  [][\A r \in Reqs :
       (/\ ValidateStep(r)
        /\ Revalidates(req[r])
        /\ Stored.sMaxAge = Absent /\ Stored.maxAge = Absent)
       => result'[r] = IF Stored.expires \in {Absent, Unparseable}
                       THEN <<FALSE, 0>>
                       ELSE <<now < Stored.expires, StatusNotModified>>]_vars

\* C25: for a request without revalidation directive that carries
\* If-Modified-Since, Validate returns (true, 304) exactly when the stored
\* Last-Modified is not later than that date (equality included).
C25_IfModifiedSince ==
  [][\A r \in Reqs :
       (/\ ValidateStep(r)
        /\ ~Revalidates(req[r])
        /\ req[r].ims # Absent
        /\ Stored.lastMod # Absent)
       => /\ result'[r][1] <=> Stored.lastMod <= req[r].ims
          /\ result'[r][1] => result'[r][2] = StatusNotModified]_vars

OriginsStandardize ==
  {[OriginBase EXCEPT !.private = p, !.public = q, !.noCache = n, !.ncsc = c,
                      !.noStore = s, !.maxAge = a, !.lastMod = l,
                      !.expires = e, !.cookies = k] :
     p \in BOOLEAN, q \in BOOLEAN, n \in BOOLEAN, c \in BOOLEAN, s \in BOOLEAN,
     a \in {Absent, 1}, l \in {Absent, 0}, e \in {Absent, 1},
     k \in {<<>>, <<<<"tracker", "b">>, <<"session", "a">>>>}}

InitStandardize ==
  /\ origin \in {{o} : o \in OriginsStandardize}
  /\ req = [r \in Reqs |-> PlainReq]
  /\ entries = <<>>
  /\ vary = <<>>
  /\ frames = [r \in Reqs |-> <<NewFrame(0, FALSE)>>]
  /\ sink = [r \in Reqs |-> NoSink]
  /\ now = 0
  /\ singleflights = <<>>
  /\ groups = [g \in Reqs |-> NewSingleflight]
  /\ task = [r \in Reqs |-> NoTask]
  /\ early = [r \in Reqs |-> FALSE]
  /\ result = [r \in Reqs |-> <<>>]

\* One call of Standardize on response o to request r: the Response it
\* returns and the response it leaves in its argument.
Standardized(o, r) ==
  [stored |-> Standardize(o, r, req[r], now), forwarded |-> ForwardedForm(o, now)]

\* response := c.Standardize(resp), on the origin's response.
StandardizeOrigin(r) ==
  /\ Running(r, "fetch")
  /\ \E o \in origin :
       result' = [result EXCEPT ![r] = <<Standardized(o, r)>>]
  /\ frames' = SetTop(r, [Top(r) EXCEPT !.pc = "standardized"])
  /\ UNCHANGED <<req, sink, now, entries, vary, singleflights, groups, task, origin, early>>

\* c.Standardize(resp) once more, on the response the first call left.
StandardizeAgain(r) ==
  /\ Running(r, "standardized")
  /\ result' = [result EXCEPT
                  ![r] = Append(@, Standardized(result[r][1].forwarded, r))]
  /\ frames' = SetTop(r, [Top(r) EXCEPT !.pc = "done"])
  /\ UNCHANGED <<req, sink, now, entries, vary, singleflights, groups, task, origin, early>>

NextStandardize ==
  \/ \E r \in Reqs : StandardizeOrigin(r)
  \/ \E r \in Reqs : StandardizeAgain(r)
  \/ Tick

SpecStandardize == InitStandardize /\ [][NextStandardize]_vars

\* The step is the first call of Standardize for r, on origin response o.
StandardizeStep(r, o) == result[r] = <<>> /\ result'[r] # <<>> /\ o \in origin

\* C27: the stored response's Cache-Control contains public whenever the
\* origin's does not contain private, and public is never added when private
\* is there.
C27_PublicAdded ==
  [][\A r \in Reqs : \A o \in OriginsStandardize :
       StandardizeStep(r, o)
       => /\ ~o.private => result'[r][1].stored.public
          /\ o.private => (result'[r][1].stored.public => o.public)]_vars

\* C28: every response in the store serves headers with an ETag unless its
\* Cache-Control has no-store, and always with a Last-Modified and an Expires
\* value.
C28_StoredNormalised ==
  \A h \in DOMAIN entries :
    /\ ~entries[h].noStore => entries[h].etag # 0
    /\ entries[h].lastMod # Absent
    /\ entries[h].expires # Absent

\* The headers a stored response serves, as far as the model keeps them.
StoredHeaders(resp) ==
  [private |-> resp.private, noStore |-> resp.noStore, noCache |-> resp.noCache,
   ncsc |-> resp.ncsc, public |-> resp.public, maxAge |-> resp.maxAge,
   sMaxAge |-> resp.sMaxAge, sie |-> resp.sie, vary |-> resp.vary,
   expires |-> resp.expires, lastMod |-> resp.lastMod,
   setCookie |-> resp.setCookie, etag |-> resp.etag]

\* The step is the second call of Standardize for r.
StandardizeAgainStep(r) == Len(result[r]) = 1 /\ Len(result'[r]) = 2

\* C29: Standardize applied to the response a first application left behind
\* stores the same headers and the same body as the first.
C29_Idempotent ==
  [][\A r \in Reqs :
       StandardizeAgainStep(r)
       => /\ StoredHeaders(result'[r][2].stored) = StoredHeaders(result'[r][1].stored)
          /\ result'[r][2].stored.body = result'[r][1].stored.body]_vars

\* The Set-Cookie lines of a name that is not allowed.
NotAllowed(cookies) ==
  SelectSeq(cookies, LAMBDA c : ~InSeq(c[1], allowedCookieNames))

\* The Set-Cookie lines of an allowed name.
Allowed(cookies) ==
  SelectSeq(cookies, LAMBDA c : InSeq(c[1], allowedCookieNames))

\* C30, as stated: after Standardize neither the forwarded nor the stored
\* response has a Set-Cookie for a name that is not allowed, and both keep
\* every Set-Cookie for an allowed name.
C30_SetCookieFiltered ==
  [][\A r \in Reqs : \A o \in OriginsStandardize :
       StandardizeStep(r, o)
       => /\ NotAllowed(result'[r][1].forwarded.cookies) = <<>>
          /\ NotAllowed(result'[r][1].stored.setCookie) = <<>>
          /\ result'[r][1].forwarded.cookies = Allowed(o.cookies)
          /\ result'[r][1].stored.setCookie = Allowed(o.cookies)]_vars

\* C30, amended: after Standardize neither the forwarded nor the stored
\* response has a Set-Cookie for a name that is not allowed; the forwarded
\* response keeps every Set-Cookie for an allowed name, and so does the
\* stored response unless the origin's Cache-Control holds
\* no-cache="set-cookie", when the stored response has no Set-Cookie at all.
C30_SetCookieFilteredUnlessNoCache ==
  [][\A r \in Reqs : \A o \in OriginsStandardize :
       StandardizeStep(r, o)
       => /\ NotAllowed(result'[r][1].forwarded.cookies) = <<>>
          /\ NotAllowed(result'[r][1].stored.setCookie) = <<>>
          /\ result'[r][1].forwarded.cookies = Allowed(o.cookies)
          /\ result'[r][1].stored.setCookie
               = IF o.ncsc THEN <<>> ELSE Allowed(o.cookies)]_vars

\* Standardize took the tracker's Set-Cookie off a response and kept the
\* session's, on the forwarded and on the stored response.
C30_Witness ==
  \E o \in origin :
    /\ o.cookies = <<<<"tracker", "b">>, <<"session", "a">>>>
    /\ ~o.ncsc
    /\ result[1] # <<>>
    /\ result[1][1].forwarded.cookies = <<<<"session", "a">>>>
    /\ result[1][1].stored.setCookie = <<<<"session", "a">>>>

\* ---------------------------------------------------- CanCache, on its own
\* CanCache applied to requests of every method, with and without
\* Authorization, for a page, a static file, an upper-case extension, a dot
\* in a directory name, the WordPress paths, a path that only contains
\* "/feed", and preview=true / preview=false.
UrlsCanCache ==
  {"/", "/images/test.jpg", "/images/test.JPG", "/v1.2/page", "/feed",
   "/wp-admin", "/wp-login", "/blog/feedback", "/?preview=true",
   "/?preview=false"}

RequestsCanCache ==
  {[PlainReq EXCEPT !.method = m, !.url = u, !.auth = a] :
     m \in {"GET", "HEAD", "POST"}, u \in UrlsCanCache, a \in BOOLEAN}

InitCanCache ==
  /\ req \in {f \in [Reqs -> RequestsCanCache] : \A r \in Reqs : r > 1 => f[r] = PlainReq}
  /\ entries = <<>>
  /\ vary = <<>>
  /\ frames = [r \in Reqs |-> <<NewFrame(0, FALSE)>>]
  /\ sink = [r \in Reqs |-> NoSink]
  /\ now = 0
  /\ singleflights = <<>>
  /\ groups = [g \in Reqs |-> NewSingleflight]
  /\ task = [r \in Reqs |-> NoTask]
  /\ origin = {OriginBase}
  /\ early = [r \in Reqs |-> FALSE]
  /\ result = [r \in Reqs |-> <<>>]

\* c.CanCache(r)
CanCacheCall(r) ==
  /\ Running(r, "fetch")
  /\ result' = [result EXCEPT ![r] = <<CanCache(req[r])>>]
  /\ frames' = SetTop(r, [Top(r) EXCEPT !.pc = "done"])
  /\ UNCHANGED <<req, sink, now, entries, vary, singleflights, groups, task, origin, early>>

NextCanCache == \E r \in Reqs : CanCacheCall(r)

SpecCanCache == InitCanCache /\ [][NextCanCache]_vars

\* The step is a call of CanCache for r.
CanCacheStep(r) == result[r] = <<>> /\ result'[r] # <<>>

\* C31: CanCache returns true exactly when the method is GET or HEAD, the
\* path has no static-file extension, there is no Authorization, preview is
\* not "true", and the path is neither a skip URL nor matched by a skip
\* expression; the call changes neither the request, the store nor the
\* registry.
C31_CanCache ==
  [][\A r \in Reqs :
       CanCacheStep(r)
       => /\ result'[r][1]
               = (/\ req[r].method \in {"GET", "HEAD"}
                  /\ Ext(UrlPath(req[r].url)) \notin fileExtensions
                  /\ ~req[r].auth
                  /\ QueryPreview(req[r].url) # "true"
                  /\ UrlPath(req[r].url) \notin skipUrls
                  /\ UrlPath(req[r].url) \notin skipRegex)
          /\ req' = req
          /\ entries' = entries /\ vary' = vary
          /\ singleflights' = singleflights /\ groups' = groups]_vars

\* CanCache accepted a HEAD with preview=false and no Authorization.
C31_Witness ==
  /\ req[1].method = "HEAD" /\ req[1].url = "/?preview=false" /\ ~req[1].auth
  /\ result[1] = <<TRUE>>

\* ------------------------------------------------------ the backend rewrite
\* The mediator has rewritten r's request.
Rewritten(r) == req[r].urlHost = backend.host

\* C32: once the mediator has rewritten a request, however often, the URL's
\* host and scheme are the backend's, Host is the host the client asked for
\* and X-Forwarded-Proto is the client's scheme (no request of these bursts
\* brings the header itself).
C32_BackendRewrite ==
  \A r \in Reqs :
    Rewritten(r)
    => /\ req[r].urlHost = backend.host /\ req[r].scheme = backend.scheme
       /\ req[r].host = ClientHost
       /\ req[r].xfp = ClientScheme

\* ------------------------------------------- conditional leaders (C33, C34)
\* The same program under requests with validators and a revalidation
\* intent: If-None-Match naming the ETag of the body forwarded for request 1,
\* If-Modified-Since, If-Unmodified-Since, and max-age=0 with
\* stale-while-revalidate together with both validators; the origin answers
\* without Last-Modified, with it and Vary: Accept-Language, and with
\* Cache-Control: private.
ImsReq == [PlainReq EXCEPT !.ims = 1]

IusReq == [PlainReq EXCEPT !.ius = 0, !.lang = "ru"]

SwrInmImsReq ==
  [PlainReq EXCEPT !.cc = [NoCC EXCEPT !.maxAge = 0, !.swr = 1],
                   !.inm = 1, !.ims = 0]

ProfilesLeader == <<PlainReq, InmReq, ImsReq, IusReq, SwrInmImsReq>>

OriginsLeader ==
  {OriginBase, [OriginBase EXCEPT !.lastMod = 0, !.vary = <<"Accept-Language">>],
   [OriginBase EXCEPT !.private = TRUE]}

InitLeader == InitWith(ProfilesLeader, OriginsLeader)

SpecLeader == InitLeader /\ [][Next]_vars

\* The step is the response-modifier hook on the response to r, for a hash
\* that has a group, r's sink being the client's.
HookStep(r) ==
  /\ Running(r, "forward")
  /\ ~Top(r).rec
  /\ frames'[r] # frames[r]
  /\ task'[r].pc = "write"

\* C33: the hook gives the leader 304 and no body when its If-None-Match
\* equals the ETag of the response being dispatched; otherwise, when it sent
\* must-revalidate, proxy-revalidate, If-Modified-Since or
\* If-Unmodified-Since and Validate accepts, the validation code and no body;
\* otherwise the origin's status and body, with X-Honey-Cache: MISS when not
\* serving stale.
C33_LeaderDowngrade ==
  [][\A r \in Reqs :
       HookStep(r)
       => LET rq == req[r]
              out == task'[r].resp
              v == Validate(out, rq, now)
          IN IF rq.inm # 0 /\ rq.inm = out.etag
             THEN sink'[r].status = StatusNotModified /\ sink'[r].body = 0
             ELSE IF /\ \/ rq.cc.mustRevalidate \/ rq.cc.proxyRevalidate
                        \/ rq.ims # Absent \/ rq.ius # Absent
                     /\ v[1]
             THEN sink'[r].status = v[2] /\ sink'[r].body = 0
             ELSE /\ sink'[r].body = r
                  /\ \E o \in origin : sink'[r].status = o.status
                  /\ ~sink'[r].warn => sink'[r].xhc = "MISS"]_vars

\* A leader with If-Unmodified-Since got 412 and no body from the hook.
C33_Witness ==
  \E r \in Reqs :
    /\ req[r].ius # Absent
    /\ task[r].pc # "none"
    /\ sink[r].n = 1
    /\ sink[r].status = StatusPreconditionFailed /\ sink[r].body = 0

\* C34: every status a sink has received is the status of an origin (or
\* stored) response, 304, 412 or 504; never 0 or another code.
C34_StatusCodes ==
  \A r \in Reqs :
    sink[r].n > 0
    => sink[r].status \in {o.status : o \in origin}
                          \cup {StatusNotModified, StatusPreconditionFailed,
                                StatusGatewayTimeout}

\* ------------------------------------------------ the completion counter
\* C35: while no Write is executing on a group, its completion counter is the
\* number of waiters registered and not yet dispatched; the counter is never
\* negative.
C35_CounterInvariant ==
  \A g \in Reqs :
    /\ groups[g].n >= 0
    /\ groups[g].writer = NoWriter => groups[g].n = Len(groups[g].requests)

\* ------------------------------------------ the hook without a group
\* The step is the response-modifier hook on the response to r, while no
\* group is registered under the hash of r.
HookMissingStep(r) ==
  /\ Running(r, "forward")
  /\ frames'[r] # frames[r]
  /\ Hash(vary, req[r]) \notin DOMAIN singleflights

\* C36: a hook that finds no group under the hash of its request changes
\* nothing: the store, the Vary memo, the registry and every group stay as
\* they are, no Write is started, and the sink gets the origin's own status
\* and body with the cache header it already had and no warning.
C36_MissingGroup ==
  [][\A r \in Reqs :
       HookMissingStep(r)
       => /\ entries' = entries
          /\ vary' = vary
          /\ singleflights' = singleflights
          /\ groups' = groups
          /\ \A t \in Reqs : task'[t].pc = "write" => task[t].pc = "write"
          /\ \A t \in Reqs \ {r} : task'[t] = task[t] /\ sink'[t] = sink[t]
          /\ IF Top(r).rec THEN sink'[r] = sink[r]
             ELSE /\ sink'[r].n = sink[r].n + 1
                  /\ sink'[r].body = r
                  /\ \E o \in origin : sink'[r].status = o.status
                  /\ sink'[r].xhc = sink[r].xhc
                  /\ ~sink'[r].warn]_vars

\* A request whose hook found no group has the origin's response in its sink.
C36_Witness ==
  \E r \in Reqs :
    /\ task[r].pc = "dropped"
    /\ sink[r].n = 1 /\ sink[r].body = r
    /\ sink[r].status = StatusOK

\* ------------------------------------------------------- the late joiner
\* The step is the Write that request r, registered on a finished group,
\* calls itself from AddWriter.
LateWriteStep(r) ==
  /\ Running(r, "latewrite")
  /\ Len(frames'[r]) = Len(frames[r])
  /\ frames'[r][Len(frames[r])].pc # "latewrite"

\* C37: a waiter added to a finished group is handled by the Write it calls
\* itself, with the group's recorded response and by the rules of Write:
\* every waiter then registered is left unwritten when the response may not
\* be shared, written once with that response when its Vary signature is the
\* leader's, and queued for the handler otherwise; and when this Write
\* returns the completion counter is zero, so that the waiter's Wait returns.
C37_LateJoiner ==
  [][\A r \in Reqs :
       LateWriteStep(r)
       => LET g == Top(r).grp
              resp == groups[g].response
          IN /\ groups[g].done
             /\ \A w \in Reqs :
                  InSeq(w, groups[g].requests)
                  => LET i == FrameOf(w, g)
                     IN IF Unshareable(resp)
                        THEN sink'[w] = sink[w] /\ frames'[w][i].d = 0
                        ELSE IF Bucket(w, resp) = LeaderBucket(resp)
                        THEN /\ sink'[w] = Dispatch(sink[w], frames[w][i].rec, req[w], resp)
                             /\ frames'[w][i].d = 1
                        ELSE /\ sink'[w] = sink[w]
                             /\ InSeq(w, groups'[g].queue)
             /\ groups'[g].writer = NoWriter => groups'[g].n = 0]_vars

\* ------------------------------------------------- deletions by hash
\* C38: a step that removes a hash from the registry removes a group whose
\* Write has completed; a group that is registered and not yet written (its
\* leader still fetching) is not unregistered by a returning waiter or by a
\* flush task.
C38_DeleteOnlyDone ==
  [][\A h \in DOMAIN singleflights :
       h \notin DOMAIN singleflights' => groups[singleflights[h]].done]_vars

\* ------------------------------------------- unshareable responses and the store
\* C39: the store holds no response with Cache-Control: private or Vary: *,
\* and no sink has been answered from the store (X-Honey-Cache: HIT) with
\* such a response.
C39_UnshareableNotStored ==
  /\ \A h \in DOMAIN entries :
       ~entries[h].private /\ entries[h].vary # <<"*">>
  /\ \A r \in Reqs :
       (sink[r].n > 0 /\ sink[r].xhc = "HIT")
       => \A t \in Reqs :
            (task[t].pc \notin {"none", "dropped"} /\ task[t].resp.body = sink[r].body)
            => ~task[t].resp.private /\ task[t].resp.vary # <<"*">>

\* ------------------------------------------------ admission and fan-out
\* The key under which Cache put the response of task t.
StoredKey(t) == task[t].hash \o LeaderBucket(task[t].resp)

\* C40: an admissible response is stored before its group is written or
\* unregistered.  Every Write of an admissible response finds it stored
\* under its key; and, the origin giving admissible responses only, a step
\* that removes a group from the registry finds a response that was flushed
\* to that group, stored under its key.
C40_AdmissionFirst ==
  [][/\ \A g \in Reqs : \A t \in Reqs :
          (/\ WriteStep(g, task[t].resp)
           /\ task[t].pc \notin {"none", "dropped"}
           /\ task[t].grp = g
           /\ Admissible(task[t].resp))
          => StoredKey(t) \in DOMAIN entries
     /\ \A g \in Reqs :
          (/\ g \in Registered
           /\ g \notin Registered'
           /\ \A o \in origin : Admissible(Standardize(o, g, req[g], now)))
          => \E t \in Reqs :
               /\ task[t].pc \notin {"none", "dropped"}
               /\ task[t].grp = g
               /\ StoredKey(t) \in DOMAIN entries]_vars
====
